---- MODULE Spec2Model ----
(***************************************************************************)
(* Mappy: the request gateway (maps.py), its rate limiter (rate.py), the  *)
(* two cache backends (caches.py), the services on them (geocode.py,       *)
(* places.py) and their callers (excel.py, app.py).                        *)
(*                                                                         *)
(* Time is counted in ticks; TicksPerSecond ticks make one second.  An     *)
(* optional Python value is a sequence: << >> is None, <<x>> is x.         *)
(***************************************************************************)
EXTENDS Integers, Sequences, FiniteSets, TLC

\* ------------------------------------------------------------------ bounds
MaxClock == 8
MaxJitter == 1
MaxRetries == 2
MaxBackoff == 3
MaxEntries == 2
MaxCached == 2
MaxRows == 2

TicksPerSecond == 2

None == << >>
Some(x) == << x >>

Min(a, b) == IF a <= b THEN a ELSE b

RECURSIVE Pow2(_)
Pow2(n) == IF n <= 0 THEN 1 ELSE 2 * Pow2(n - 1)

\* ------------------------------------------------------------------ state
VARIABLES
    \* Maps.__init__
    qps, max_retries, backoff_min, backoff_max,
    \* RateLimiter fields
    interval, last,
    \* time.time( )
    now,
    \* what the direct wait( ) calls did: one has recorded a time, the
    \* argument of the most recent one's sleep, a flag that flips on every call
    waited, limSleep, flip,
    \* one Maps.request call
    pc, endpoint, params, attempt, backoff, q,
    \* what the current call has done so far
    attempts, waits, sleeps, resp, priorTransient, outcome,
    \* the cache backend in use, InMemoryCache._store, the SQLite file and
    \* whether a SQLiteCache is connected to it
    cache, store, db, conn,
    \* the values passed to set, the most recent cache call and what the most
    \* recent get returned, whether a SQLiteCache was opened on a written file,
    \* whether a set has replaced the value of a key by another value
    written, lastOp, got, reopened, overwrote,
    \* the most recent call of Geocoder.freeform or Places.text_to_location
    lastCall,
    \* the batch run of Excel.enrich_from_address or Excel.enrich, and the most
    \* recent lookup made by a caller of the services (Excel or app)
    xl, lookup,
    \* two threads inside RateLimiter.wait( ) of one shared limiter
    race,
    \* the most recent call of DistanceMatrix.summary
    lastSummary,
    \* one Places object shared by two threads: its attributes and the
    \* position of each thread inside text_to_location
    places

limiterVars == << interval, last, waited, limSleep, flip >>
configVars == << qps, max_retries, backoff_min, backoff_max >>
callVars == << pc, endpoint, params, attempt, backoff, q,
               attempts, waits, sleeps, resp, priorTransient, outcome >>
cacheVars == << cache, store, db, conn, written, lastOp, got, reopened, overwrote >>
callerVars == << lastCall, xl, lookup, race, lastSummary, places >>
vars == << configVars, limiterVars, now, callVars, cacheVars, callerVars >>

\* ------------------------------------------------------------ rate limiter
\* RateLimiter.__init__: 1.0 / qps if qps and qps > 0 else 0.0
Interval(r) == IF r # None /\ r[1] # 0 /\ r[1] > 0 THEN TicksPerSecond \div r[1] ELSE 0

\* wait( ): the early return
WaitIsNoOpStrict(iv) == iv < 0
WaitIsNoOp(iv) == iv <= 0

\* wait( ): the argument of time.sleep, None when sleep is not called
WaitSleepNever(iv, lst, t) == None
\* a sleep of the whole interval whenever one is due
WaitSleepWhole(iv, lst, t) ==
    IF WaitIsNoOp(iv) THEN None
    ELSE IF t - lst < iv THEN Some(iv) ELSE None
WaitSleep(iv, lst, t) ==
    IF WaitIsNoOp(iv) THEN None
    ELSE IF t - lst < iv THEN Some(iv - (t - lst)) ELSE None

\* wait( ): the value stored in _last, read from the clock after the sleep
WaitRecordNow(t, tAfter) == t
WaitRecord(t, tAfter) == tAfter

\* wait( ) called at time t; over is how much longer than asked the sleep
\* lasted.  The result is the limiter and the clock afterwards.
wait(iv, lst, t, over) ==
    LET s == WaitSleep(iv, lst, t)
        tAfter == IF s = None THEN t ELSE t + s[1] + over
    IN  IF WaitIsNoOp(iv)
        THEN [last |-> lst, now |-> t, sleep |-> None, recorded |-> FALSE]
        ELSE [last |-> WaitRecord(t, tAfter), now |-> tAfter, sleep |-> s,
              recorded |-> TRUE]

\* ----------------------------------------------------------------- gateway
api_key == "KEY"

\* the outcomes of self._session.get: an HTTP response (json: the body
\* parses), a timeout or a connection failure
Statuses == {200, 204, 404, 408, 429, 500, 502, 503, 504}

Responses ==
    {[kind |-> "http", status |-> s, json |-> (s = 200)] : s \in Statuses}
    \cup {[kind |-> "http", status |-> 200, json |-> FALSE],
          [kind |-> "timeout", status |-> 0, json |-> FALSE],
          [kind |-> "connection", status |-> 0, json |-> FALSE]}

\* if status in (408, 429, 500, 502, 503, 504)
TRANSIENT == {408, 429, 500, 502, 503, 504}

\* the exception the body of the try statement ends with, "none" when it
\* returns resp.json( )
Raised(r) ==
    IF r.kind = "timeout" THEN "Timeout"
    ELSE IF r.kind = "connection" THEN "ConnectionError"
    ELSE IF r.status = 200 THEN (IF r.json THEN "none" ELSE "JSONDecodeError")
    ELSE IF r.status \in TRANSIENT THEN "GatewayError"
    ELSE "GatewayError"

\* except (requests.Timeout, requests.ConnectionError, GatewayError)
CAUGHT == {"Timeout", "ConnectionError", "GatewayError"}

\* if attempt > self._max_retries
ExhaustedLate(a) == a > max_retries + 1
ExhaustedEarly(a) == a >= max_retries
Exhausted(a) == a > max_retries

\* backoff = min( backoff * 2, self._backoff_max )
NextBackoffUncapped(b) == b * 2
NextBackoff(b) == Min(b * 2, backoff_max)

\* q = dict( params or { } ); q[ "key" ] = self._key
EmptyDict == [x \in {} |-> ""]
Truthy(p) == p # None /\ DOMAIN p[1] # {}
QueryKeepsKey(p) ==
    LET base == IF Truthy(p) THEN p[1] ELSE EmptyDict
    IN  [x \in DOMAIN base \cup {"key"} |-> IF x \in DOMAIN base THEN base[x] ELSE api_key]
Query(p) ==
    LET base == IF Truthy(p) THEN p[1] ELSE EmptyDict
    IN  [x \in DOMAIN base \cup {"key"} |-> IF x = "key" THEN api_key ELSE base[x]]

\* the calls made: a usual one, one that brings its own "key", and the ones
\* with an empty endpoint, with no parameters and with empty parameters
Calls ==
    {[endpoint |-> "geocode/json", params |-> Some([x \in {"address"} |-> "A"])],
     [endpoint |-> "geocode/json",
      params |-> Some([x \in {"address", "key"} |-> IF x = "key" THEN "mine" ELSE "A"])],
     [endpoint |-> "", params |-> Some([x \in {"address"} |-> "A"])],
     [endpoint |-> "geocode/json", params |-> None],
     [endpoint |-> "geocode/json", params |-> Some(EmptyDict)]}

\* what the claims call a transient failure
IsTransientFailure(r) ==
    \/ r.kind \in {"timeout", "connection"}
    \/ r.kind = "http" /\ r.status \in {408, 429, 500, 502, 503, 504}

\* ------------------------------------------------------------------ caches
\* A Python dict is the sequence of its entries in insertion order, an entry
\* being a key (kk its type, k its text) and a value (vk its type, v its
\* text).  A JSON text is the sequence of its members, whose keys are strings.
KeyAtoms == {<<"str", "1">>, <<"int", "1">>}
ValAtoms == {<<"str", "x">>, <<"list", "[1]">>, <<"tuple", "[1]">>}
Entries == {[kk |-> ka[1], k |-> ka[2], vk |-> va[1], v |-> va[2]] :
                ka \in KeyAtoms, va \in ValAtoms}
PyValues ==
    {d \in UNION {[1..n -> Entries] : n \in 0..MaxEntries} :
        \A i, j \in DOMAIN d : (d[i].kk = d[j].kk /\ d[i].k = d[j].k) => i = j}
CacheKeys == {"geocode::a", "places::b"}

\* dict.__setitem__
DictPut(d, e) ==
    IF \E i \in DOMAIN d : d[i].kk = e.kk /\ d[i].k = e.k
    THEN [i \in DOMAIN d |-> IF d[i].kk = e.kk /\ d[i].k = e.k THEN e ELSE d[i]]
    ELSE Append(d, e)

\* dict.__eq__
AsMap(d) ==
    [key \in {<<d[i].kk, d[i].k>> : i \in DOMAIN d} |->
        LET i == CHOOSE j \in DOMAIN d : <<d[j].kk, d[j].k>> = key
        IN  <<d[i].vk, d[i].v>>]
DictEq(a, b) == AsMap(a) = AsMap(b)

\* a payload that keeps every value as its text alone
dumpsText(d) == [i \in DOMAIN d |-> [k |-> d[i].k, vk |-> "str", v |-> d[i].v]]

\* json.dumps( value, ensure_ascii=False ): keys become strings, tuples
\* become arrays
dumps(d) ==
    [i \in DOMAIN d |->
        [k |-> d[i].k, vk |-> IF d[i].vk = "tuple" THEN "list" ELSE d[i].vk,
         v |-> d[i].v]]

\* json.loads( row[ 0 ] ): a repeated key keeps its last value
RECURSIVE loadsFrom(_, _)
loadsFrom(t, d) ==
    IF t = << >> THEN d
    ELSE loadsFrom(Tail(t),
                   DictPut(d, [kk |-> "str", k |-> Head(t).k,
                               vk |-> Head(t).vk, v |-> Head(t).v]))
loads(t) == loadsFrom(t, << >>)

\* the values passed to set, by key
Remember(f, k, v) == [x \in DOMAIN f \cup {k} |-> IF x = k THEN v ELSE f[x]]
Replaces(f, k, v) == k \in DOMAIN f /\ f[k] # v

\* a map with one more binding
MapPutAlone(f, k, v) == [x \in {k} |-> v]
MapPut(f, k, v) == [x \in DOMAIN f \cup {k} |-> IF x = k THEN v ELSE f[x]]

\* CREATE TABLE IF NOT EXISTS kv (k TEXT PRIMARY KEY, v TEXT NOT NULL)
CreateTableAnew(d) == [exists |-> TRUE, kv |-> [x \in {} |-> << >>]]
CreateTable(d) == IF d.exists THEN d ELSE [exists |-> TRUE, kv |-> [x \in {} |-> << >>]]

\* INSERT OR REPLACE INTO kv (k, v) VALUES (?, ?)
InsertOrIgnore(kv, k, payload) == IF k \in DOMAIN kv THEN kv ELSE MapPut(kv, k, payload)
InsertOrReplace(kv, k, payload) == MapPut(kv, k, payload)

\* SQLiteCache.get
SqlGetResult(d, k) == IF k \in DOMAIN d.kv THEN Some(loads(d.kv[k])) ELSE None

\* InMemoryCache.get
MemGetResult(st, k) == IF k \in DOMAIN st THEN Some(st[k]) ELSE None

\* ---------------------------------------------------------------- services
\* A str argument is the sequence of its characters, Text(s) the string they
\* spell.  A value of a dict is its type vk and its text v.
RECURSIVE Text(_)
Text(s) == IF s = << >> THEN "" ELSE Head(s) \o Text(Tail(s))

\* str.upper( ) on the letters used
UpperChar(c) == CASE c = "u" -> "U" [] c = "s" -> "S" [] OTHER -> c
upper(s) == [i \in 1..Len(s) |-> UpperChar(s[i])]
\* the same hint in lower case, for the claims
LowerChar(c) == CASE c = "U" -> "u" [] c = "S" -> "s" [] OTHER -> c
lower(s) == [i \in 1..Len(s) |-> LowerChar(s[i])]

\* str.strip( )
RECURSIVE lstrip(_)
lstrip(s) == IF s # << >> /\ Head(s) = " " THEN lstrip(Tail(s)) ELSE s
RECURSIVE rstrip(_)
rstrip(s) == IF s # << >> /\ s[Len(s)] = " " THEN rstrip(SubSeq(s, 1, Len(s) - 1)) ELSE s
strip(s) == rstrip(lstrip(s))

\* sep.join( parts ), on character sequences and on strings
RECURSIVE join(_, _)
join(sep, parts) ==
    IF parts = << >> THEN << >>
    ELSE IF Len(parts) = 1 THEN parts[1]
    ELSE parts[1] \o sep \o join(sep, Tail(parts))
RECURSIVE joinText(_, _)
joinText(sep, parts) ==
    IF parts = << >> THEN ""
    ELSE IF Len(parts) = 1 THEN parts[1]
    ELSE parts[1] \o sep \o joinText(sep, Tail(parts))

\* x or ''  for an optional str
OrEmpty(x) == IF x # None /\ x[1] # << >> THEN x[1] ELSE << >>
\* the truth value of an optional str
NonEmpty(x) == x # None /\ x[1] # << >>

PyNone == [vk |-> "NoneType", v |-> ""]
PyStr(t) == [vk |-> "str", v |-> t]
PyFloat(t) == [vk |-> "float", v |-> t]
PyList(t) == [vk |-> "list", v |-> t]
Falsy(x) ==
    \/ x.vk = "NoneType"
    \/ x.vk = "str" /\ x.v = ""
    \/ x.vk = "list" /\ x.v = "[]"
    \/ x.vk = "float" /\ x.v = "0.0"
Or(x, y) == IF Falsy(x) THEN y ELSE x
Item(k, x) == [kk |-> "str", k |-> k, vk |-> x.vk, v |-> x.v]

\* elements of 'results' in a Geocoding API response: a full one and one
\* with no field
Result1 ==
    [formatted_address |-> PyStr("1 Main St, Springfield, US"),
     lat |-> PyFloat("1.5"), lng |-> PyFloat("2.5"), place_id |-> PyStr("P1"),
     types |-> <<"street_address", "premise">>,
     address_components |->
        << [types |-> {"locality", "political"}, short_name |-> PyStr("Springfield"),
            long_name |-> PyStr("Springfield")],
           [types |-> {"country", "political"}, short_name |-> PyStr("US"),
            long_name |-> PyStr("United States")] >>]
Result2 ==
    [formatted_address |-> PyNone, lat |-> PyNone, lng |-> PyNone, place_id |-> PyNone,
     types |-> << >>, address_components |-> << >>]

\* comp( kind, want_long ) of _flatten_geocode
comp(comps, kind, want_long) ==
    LET at == {i \in DOMAIN comps : kind \in comps[i].types}
    IN  IF at = {} THEN PyNone
        ELSE LET c == comps[CHOOSE i \in at : \A j \in at : i <= j]
             IN  Or(IF want_long THEN c.long_name ELSE c.short_name, PyNone)

_flatten_geocode(result) ==
    LET comps == result.address_components
    IN  << Item("formatted_address", result.formatted_address),
           Item("lat", result.lat),
           Item("lng", result.lng),
           Item("place_id", result.place_id),
           Item("types", IF result.types # << >>
                         THEN PyStr(joinText(",", result.types)) ELSE PyNone),
           Item("country_code", comp(comps, "country", FALSE)),
           Item("country_name", comp(comps, "country", TRUE)),
           Item("admin_level_1", comp(comps, "administrative_area_level_1", FALSE)),
           Item("admin_level_2", comp(comps, "administrative_area_level_2", FALSE)),
           Item("locality", Or(comp(comps, "locality", FALSE),
                               comp(comps, "postal_town", FALSE))),
           Item("postal_code", comp(comps, "postal_code", FALSE)) >>

\* what Maps.request does for its caller: it returns the parsed body or
\* raises
Raises(e) == [kind |-> "raise", exc |-> e, body |-> None]
Returns(b) == [kind |-> "json", exc |-> "", body |-> Some(b)]

\* answers to geocode/json
GeocodeAnswers ==
    {Raises("GatewayError"),
     Returns([status |-> "OK", results |-> Some(<< Result1 >>)]),
     Returns([status |-> "OK", results |-> Some(<< Result2, Result1 >>)]),
     Returns([status |-> "ZERO_RESULTS", results |-> Some(<< >>)]),
     Returns([status |-> "OK", results |-> None]),
     Returns([status |-> "REQUEST_DENIED", results |-> Some(<< Result1 >>)])}

\* answers to place/textsearch/json and to place/details/json
Details1 ==
    [formatted_address |-> PyStr("Newcastle NSW, Australia"),
     lat |-> PyFloat("-32.9"), lng |-> PyFloat("151.7"), place_id |-> PyStr("P2"),
     types |-> <<"locality", "political">>,
     address_components |-> PyList("[{'short_name': 'AU'}]")]
NoDetails ==
    [formatted_address |-> PyNone, lat |-> PyNone, lng |-> PyNone, place_id |-> PyNone,
     types |-> << >>, address_components |-> PyList("[]")]
SearchAnswers ==
    {Raises("GatewayError"),
     Returns([results |-> Some(<< [place_id |-> PyStr("P2")] >>)]),
     Returns([results |-> Some(<< [place_id |-> PyNone], [place_id |-> PyStr("P2")] >>)]),
     Returns([results |-> Some(<< >>)]),
     Returns([results |-> None])}
DetailsAnswers ==
    {Raises("GatewayError"),
     Returns([result |-> Some(Details1)]),
     Returns([result |-> None])}

\* the cache object handed to the services and its get and set
CacheOf == [kind |-> cache, store |-> store, db |-> db]
cget(c, k) ==
    IF c.kind = "InMemoryCache" THEN MemGetResult(c.store, k) ELSE SqlGetResult(c.db, k)
cset(c, k, v) ==
    IF c.kind = "InMemoryCache"
    THEN [c EXCEPT !.store = MapPut(c.store, k, v)]
    ELSE [c EXCEPT !.db = [c.db EXCEPT !.kv = InsertOrReplace(c.db.kv, k, dumps(v))]]
\* the truth value of a dict that get returned
IsHit(h) == h # None /\ h[1] # << >>

\* except Exception as e: ErrorDialog( Error( e ) ).show( ); the method then
\* ends without a return statement
Shown(e, reqs, c, key) ==
    [ret |-> None, raised |-> "none", shown |-> e, reqs |-> reqs, cache |-> c,
     key |-> key, hit |-> FALSE]
Returned(v, reqs, c, key, hit) ==
    [ret |-> Some(v), raised |-> "none", shown |-> "none", reqs |-> reqs, cache |-> c,
     key |-> key, hit |-> hit]

\* the attributes a Geocoder has: the ones __init__ and freeform assign
GeocoderAttrs ==
    {"_maps", "_cache", "prefix", "parts", "address", "country", "key", "comps",
     "data", "output"}

\* a key made of the parts alone, with no namespace in front
key_for_bare(prefix, parts) == Text(join(<<" ">>, SelectSeq(parts, LAMBDA p : p # << >>)))
\* Geocoder.key_for( prefix, *parts )
Kept(p) == p # << >> /\ strip(p) # << >>
key_for(prefix, parts) ==
    LET kept == SelectSeq(parts, Kept)
        joined == join(<<" ">>, [i \in 1..Len(kept) |-> strip(kept[i])])
    IN  prefix \o "::" \o Text(joined)

\* the request of Geocoder.freeform
GeocodeRequest(address, country) ==
    [endpoint |-> "geocode/json",
     params |-> IF NonEmpty(country)
                THEN << <<"address", Text(address)>>, <<"country", Text(upper(country[1]))>> >>
                ELSE << <<"address", Text(address)>> >>]

\* Geocoder.freeform( address, country ) with cache object c, when the
\* gateway answers up
freeform(c, address, country, up) ==
    LET key == key_for("geocode", << address, OrEmpty(country) >>)
        _hit == IF c.kind # "none" THEN cget(c, key) ELSE None
        reqs == << GeocodeRequest(address, country) >>
    IN  IF c.kind # "none" /\ IsHit(_hit) THEN Returned(_hit[1], << >>, c, key, TRUE)
        ELSE IF up.kind = "raise" THEN Shown(up.exc, reqs, c, key)
        ELSE LET data == up.body[1]
             IN  IF data.status # "OK" \/ data.results = None \/ data.results[1] = << >>
                 THEN Shown("NotFound", reqs, c, key)
                 ELSE LET output == _flatten_geocode(data.results[1][1])
                      IN  IF "cache" \notin GeocoderAttrs
                          THEN Shown("AttributeError", reqs, c, key)
                          ELSE Returned(output, reqs,
                                        IF c.kind # "none" THEN cset(c, key, output) ELSE c,
                                        key, FALSE)

\* the requests of Places.text_to_location
SearchRequest(query, country) ==
    [endpoint |-> "place/textsearch/json",
     params |-> IF NonEmpty(country)
                THEN << <<"query", Text(query)>>, <<"region", Text(upper(country[1]))>> >>
                ELSE << <<"query", Text(query)>> >>]
\* a details request for an identifier other than the one found
DetailsRequestOther(_pid) ==
    [endpoint |-> "place/details/json",
     params |-> << <<"place_id", "P0">>,
                   <<"fields", "formatted_address,geometry,address_component,place_id,type">> >>]
DetailsRequest(_pid) ==
    [endpoint |-> "place/details/json",
     params |-> << <<"place_id", _pid.v>>,
                   <<"fields", "formatted_address,geometry,address_component,place_id,type">> >>]

\* the key of Places.text_to_location
PlacesKey(query, country) ==
    "places::" \o Text(query) \o "::" \o Text(upper(OrEmpty(country)))

\* .get( 'result', { } ) of the details response and the output made of it
DetailsOf(body) == IF body.result = None THEN NoDetails ELSE body.result[1]
PlacesOutput(details) ==
    << Item("formatted_address", details.formatted_address),
       Item("lat", details.lat),
       Item("lng", details.lng),
       Item("place_id", details.place_id),
       Item("types", PyStr(joinText(",", details.types))),
       Item("address_components", details.address_components) >>

\* Places.text_to_location( query, country ) with cache object c, when the
\* gateway answers up1 to the text search and up2 to the details request
text_to_location(c, query, country, up1, up2) ==
    IF query = << >> THEN Shown("ValueError", << >>, c, "")
    ELSE IF ~NonEmpty(country) THEN Shown("ValueError", << >>, c, "")
    ELSE
    LET key == PlacesKey(query, country)
        hit == IF c.kind # "none" THEN cget(c, key) ELSE None
        r1 == << SearchRequest(query, country) >>
    IN  IF c.kind # "none" /\ IsHit(hit) THEN Returned(hit[1], << >>, c, key, TRUE)
        ELSE IF up1.kind = "raise" THEN Shown(up1.exc, r1, c, key)
        ELSE LET results == up1.body[1].results
             IN  IF results = None \/ results[1] = << >> THEN Shown("NotFound", r1, c, key)
                 ELSE LET _pid == results[1][1].place_id
                          r2 == Append(r1, DetailsRequest(_pid))
                      IN  IF Falsy(_pid) THEN Shown("NotFound", r1, c, key)
                          ELSE IF up2.kind = "raise" THEN Shown(up2.exc, r2, c, key)
                          ELSE
    LET output == PlacesOutput(DetailsOf(up2.body[1]))
    IN  Returned(output, r2, IF c.kind # "none" THEN cset(c, key, output) ELSE c,
                 key, FALSE)

\* the inputs of the calls made
Addresses == {<<"a">>, <<"b", " ">>}
Queries == {<<"q">>, << >>}
Countries == {None, Some(<< >>), Some(<<"u", "s">>), Some(<<"U", "S">>)}
\* the keys and values a client of the cache sets
ServiceKeys ==
    {key_for("geocode", << <<"a">>, OrEmpty(h) >>) : h \in Countries}
    \cup {PlacesKey(<<"q">>, h) : h \in Countries}
Cached == << Item("formatted_address", PyStr("cached")) >>
ServiceValues == {<< >>, Cached}

\* no call made yet
NoCall ==
    [fn |-> "none", arg |-> << >>, country |-> None, ups |-> << >>, held |-> None,
     ret |-> None, raised |-> "none", shown |-> "none", reqs |-> << >>, key |-> "",
     hit |-> FALSE, changed |-> FALSE]
\* the record of a call that did r
CallOf(fn, arg, country, ups, held, r) ==
    [fn |-> fn, arg |-> arg, country |-> country, ups |-> SubSeq(ups, 1, Len(r.reqs)),
     held |-> held, ret |-> r.ret, raised |-> r.raised, shown |-> r.shown,
     reqs |-> r.reqs, key |-> r.key, hit |-> r.hit, changed |-> r.cache # CacheOf]

\* ---------------------------------------------------------------- distance
\* JSON values as Python holds them after resp.json(): None, dict, list,
\* str and int, each with its type
JNull == [t |-> "NoneType"]
JDict(o) == [t |-> "dict", o |-> o]
JList(l) == [t |-> "list", l |-> l]
JStr(s) == [t |-> "str", s |-> s]
JInt(n) == [t |-> "int", n |-> n]
\* the evaluation raised (AttributeError, TypeError, IndexError, KeyError)
JRaise == [t |-> "raise"]

\* bool( x )
JFalsy(x) ==
    \/ x.t = "NoneType"
    \/ x.t = "dict" /\ DOMAIN x.o = {}
    \/ x.t = "list" /\ Len(x.l) = 0
    \/ x.t = "str" /\ x.s = ""
    \/ x.t = "int" /\ x.n = 0
\* x or y, with x as it is: the mistaken reading of the defaults
JOrLeft(x, y) == x
\* x or y
JOr(x, y) == IF x.t # "raise" /\ JFalsy(x) THEN y ELSE x
\* x.get( k ): only a dict has .get
get(x, k) ==
    IF x.t # "dict" THEN JRaise
    ELSE IF k \in DOMAIN x.o THEN x.o[k] ELSE JNull
\* x[ 0 ]
first(x) ==
    IF x.t = "list" /\ Len(x.l) > 0 THEN x.l[1] ELSE JRaise

\* _fmt( o ) of an address or of a ( lat, lng ) pair
_fmt(o) == IF o.t = "tuple" /\ Len(o.l) = 2 THEN o.l[1] \o "," \o o.l[2] ELSE o.s

\* the part of DistanceMatrix.summary after the gateway has returned data
summary(data) ==
    LET rows == JOr(get(data, "rows"), JList(<< JDict(<< >>) >>))
        elements == JOr(get(first(rows), "elements"), JList(<< JDict(<< >>) >>))
        row == first(elements)
        dist == JOr(get(row, "distance"), JDict(<< >>))
        dur == JOr(get(row, "duration"), JDict(<< >>))
        out == [distance_text |-> get(dist, "text"),
                distance_meters |-> get(dist, "value"),
                duration_text |-> get(dur, "text"),
                duration_seconds |-> get(dur, "value")]
    IN  IF \E f \in DOMAIN out : out[f].t = "raise"
        THEN [raised |-> "AttributeError", ret |-> None]
        ELSE [raised |-> "none", ret |-> Some(out)]

\* what self._maps.request gives summary: a GatewayError, or an answer of the
\* Distance Matrix API with the sub-objects present, partial, empty, null
\* or absent at each level (a choice c of None leaves the key out)
RoutingAnswers ==
    LET Put(o, k, c) == IF c = None THEN o ELSE MapPut(o, k, c[1])
        Distances ==
            {None, Some(JNull), Some(JDict(<< >>)),
             Some(JDict([text |-> JStr("5 km"), value |-> JInt(5000)])),
             Some(JDict([text |-> JStr("5 km")]))}
        Durations ==
            {None, Some(JDict(<< >>)),
             Some(JDict([text |-> JStr("10 mins"), value |-> JInt(600)])),
             Some(JDict([value |-> JInt(600)]))}
        Elements ==
            {JDict(Put(Put([status |-> JStr("OK")], "distance", d), "duration", u)) :
                d \in Distances, u \in Durations}
        Element2 ==
            JDict([status |-> JStr("OK"),
                   distance |-> JDict([text |-> JStr("9 km"), value |-> JInt(9000)]),
                   duration |-> JDict([text |-> JStr("20 mins"), value |-> JInt(1200)])])
        ElementLists ==
            {None, Some(JNull), Some(JList(<< >>)), Some(JList(<< JNull >>))}
                \cup {Some(JList(<< e >>)) : e \in Elements}
                \cup {Some(JList(<< JDict([status |-> JStr("NOT_FOUND")]), Element2 >>))}
        RowLists ==
            {None, Some(JNull), Some(JList(<< >>))}
                \cup {Some(JList(<< JDict(Put(<< >>, "elements", el)) >>)) :
                         el \in ElementLists}
                \cup {Some(JList(<< JDict(<< >>),
                                    JDict([elements |-> JList(<< Element2 >>)]) >>))}
    IN  {Raises("GatewayError")}
            \cup {Returns(JDict(Put([status |-> JStr("OK")], "rows", rl))) : rl \in RowLists}
\* no call of summary so far
NoSummary == [fn |-> "none", req |-> None, data |-> None, raised |-> "none", ret |-> None]

\* ----------------------------------------------------------------- callers
\* the attributes and methods an Excel object has
ExcelAttrs ==
    {"api_key", "cache", "maps", "geocoder", "places", "dataframe", "file_path",
     "read", "write", "enrich_from_address", "enrich"}

\* a name that is bound to a column name, to a cell value, or to None
ColumnArg(name) == [kind |-> "column", name |-> name, value |-> << >>]
ValueArg(v) == [kind |-> "value", name |-> "", value |-> v]
NoArg == [kind |-> "none", name |-> "", value |-> << >>]

\* the rows of the file as Excel.read returns them: every cell a stripped str
Columns == {"Address", "City", "State", "Country"}
RowChoices ==
    {[Address |-> <<"a">>, City |-> <<"c">>, State |-> << >>, Country |-> <<"u", "s">>],
     [Address |-> <<"a">>, City |-> <<"c">>, State |-> << >>, Country |-> << >>],
     [Address |-> << >>, City |-> << >>, State |-> << >>, Country |-> << >>]}
\* row.get( name )
RowGet(row, arg) ==
    IF arg.kind = "column" /\ arg.name \in Columns THEN Some(row[arg.name]) ELSE None
\* name and name in df.columns
InColumns(arg) == arg.kind = "column" /\ arg.name \in Columns

\* g.get( key ) and the output columns of a row
DictGet(g, key) ==
    IF \E i \in DOMAIN g : g[i].k = key
    THEN LET i == CHOOSE j \in DOMAIN g : g[j].k = key IN [vk |-> g[i].vk, v |-> g[i].v]
    ELSE PyNone
OutputKeys ==
    {"formatted_address", "lat", "lng", "place_id", "types", "country_code",
     "country_name", "admin_level_1", "admin_level_2", "locality", "postal_code"}
OutputRow(g, status) ==
    [values |-> [key \in OutputKeys |-> DictGet(g, key)], geocode_status |-> status]
Skipped == [values |-> [key \in OutputKeys |-> PyNone], geocode_status |-> "skipped_empty"]

\* the hint taken from every country of three characters or fewer, the empty
\* one included
city_query_any(city, state, ctry) ==
    [query |-> join(<<",", " ">>, SelectSeq(<< city, state, ctry >>, LAMBDA p : p # << >>)),
     _hint |-> IF Len(strip(ctry)) <= 3 THEN Some(upper(strip(ctry))) ELSE None]
\* self.query and _hint of Geocoder.city_state_country( city, state, ctry )
city_query(city, state, ctry) ==
    LET parts == SelectSeq(<< city, state, ctry >>, LAMBDA p : p # << >>)
        query == join(<<",", " ">>, parts)
        _hint == IF ctry # << >> /\ Len(strip(ctry)) <= 3
                 THEN Some(upper(strip(ctry))) ELSE None
    IN  [query |-> query, _hint |-> _hint]
\* Geocoder.city_state_country( city, state, ctry )
city_state_country(c, city, state, ctry, up) ==
    freeform(c, city_query(city, state, ctry).query, city_query(city, state, ctry)._hint, up)

\* the pairs of answers to the text search and to the details request
PlacesAnswers ==
    {<< Returns([results |-> Some(<< [place_id |-> PyStr("P2")] >>)]),
        Returns([result |-> Some(Details1)]) >>,
     << Returns([results |-> Some(<< >>)]), Raises("GatewayError") >>}

\* try: g = geocoder ... except Exception: try: g = places ... except
\* Exception: g = { }, given what the geocoder call did (r) and what the
\* Places call does (p)
Fallback(r, p) ==
    IF r.raised = "none"
    THEN [g |-> r.ret, status |-> "ok", attempts |-> 0, cache |-> r.cache]
    ELSE IF p.raised = "none"
    THEN [g |-> p.ret, status |-> "ok_places", attempts |-> 1, cache |-> p.cache]
    ELSE [g |-> Some(<< >>), status |-> "not_found", attempts |-> 1, cache |-> p.cache]

\* the lookup of one row of Excel.enrich_from_address
AddressLookup(c, addr, hint, up, pl) ==
    LET r == freeform(c, addr, hint, up)
    IN  Fallback(r, text_to_location(r.cache, addr, hint, pl[1], pl[2]))

\* the lookup of one row of Excel.enrich: self._geocoder and self._places
\* are looked up on the Excel object
EnrichLookup(c, city, state, country, up, pl) ==
    LET query == join(<<",", " ">>, SelectSeq(<< city, state, country >>,
                                               LAMBDA p : p # << >>))
        r == IF "_geocoder" \in ExcelAttrs
             THEN city_state_country(c, city, state, country, up)
             ELSE [ret |-> None, raised |-> "AttributeError", shown |-> "none",
                   reqs |-> << >>, cache |-> c, key |-> "", hit |-> FALSE]
    IN  IF r.raised = "none"
        THEN [g |-> r.ret, status |-> "ok", attempts |-> 0, cache |-> r.cache]
        ELSE IF "_places" \in ExcelAttrs
        THEN Fallback(r, text_to_location(r.cache, query, Some(country), pl[1], pl[2]))
        ELSE [g |-> Some(<< >>), status |-> "not_found", attempts |-> 0, cache |-> c]

\* the 'Resolve Location' handler of app.py: except NotFound, then except
\* Exception
AppLookup(c, query, up, pl) ==
    LET r == freeform(c, query, None, up)
        p == text_to_location(r.cache, query, None, pl[1], pl[2])
    IN  IF r.raised = "none"
        THEN [g |-> r.ret, status |-> "json", attempts |-> 0, cache |-> r.cache]
        ELSE IF r.raised = "NotFound"
        THEN [g |-> p.ret, status |-> IF p.raised = "none" THEN "json" ELSE "raised",
              attempts |-> 1, cache |-> p.cache]
        ELSE [g |-> None, status |-> "error", attempts |-> 0, cache |-> r.cache]

\* no batch started, no lookup made
NoBatch ==
    [fn |-> "none", pc |-> "idle", cntry |-> NoArg, city |-> NoArg, state |-> NoArg,
     row |-> None, outputs |-> << >>, exc |-> "none"]
NoLookup ==
    [caller |-> "none", query |-> << >>, hint |-> None, geoShown |-> "none",
     geoRet |-> None, placesRet |-> None, attempts |-> 0, status |-> "", g |-> None,
     recorded |-> FALSE]
\* the record of a lookup: what the Geocoder does for the query (r), what
\* Places does for the equivalent query (p), and what the caller made of it
LookupOf(caller, query, hint, r, p, look, recorded) ==
    [caller |-> caller, query |-> query, hint |-> hint, geoShown |-> r.shown,
     geoRet |-> r.ret, placesRet |-> p.ret, attempts |-> look.attempts,
     status |-> look.status, g |-> look.g, recorded |-> recorded]

\* ---------------------------------------------------- concurrent callers
\* the two threads that share one limiter
Threads == {1, 2}
\* a thread outside wait( ); t is its local now, seen the _last it read,
\* wake the time its sleep is over, stale whether _last was written since
\* it read it
NoThread == [pc |-> "idle", t |-> 0, seen |-> 0, wake |-> 0, stale |-> FALSE]
\* no wait( ) has returned yet; gap is the difference between the time a
\* wait( ) recorded and the one recorded before it
NoRace ==
    [th |-> [i \in Threads |-> NoThread], recorded |-> FALSE, gap |-> None,
     staleRet |-> FALSE]

\* a Places object nobody has called: the attributes text_to_location
\* assigns, and per thread its position, its query argument, its local
\* _pid and what it returned
NoPlaces ==
    [attrs |-> [query |-> << >>, country |-> None, key |-> "", hit |-> None,
                params |-> None, search |-> None, results |-> None, details |-> None,
                output |-> None],
     th |-> [i \in Threads |-> [pc |-> "idle", query |-> << >>, _pid |-> PyNone,
                                ret |-> None]]]
\* what the Places API answers: the text search for a query finds one place,
\* and the details of a place name it
UpstreamSearch(p) ==
    [results |-> Some(<< [place_id |-> PyStr("P-" \o p[1][2])] >>)]
UpstreamDetails(_pid) ==
    [result |-> Some([Details1 EXCEPT !.place_id = _pid,
                                      !.formatted_address = PyStr("at " \o _pid.v)])]

\* ------------------------------------------------------------------- Init
QpsChoices == {None, Some(-1), Some(0), Some(1), Some(2)}
GatewayQps == {None, Some(1)}

NoOp == [op |-> "none", key |-> "", value |-> None]

InitStore ==
    /\ store = [x \in {} |-> << >>]
    /\ db = [exists |-> FALSE, kv |-> [x \in {} |-> << >>]]
    /\ conn = FALSE
    /\ written = [x \in {} |-> << >>]
    /\ lastOp = NoOp
    /\ got = None
    /\ reopened = FALSE
    /\ overwrote = FALSE

\* no cache is used
InitCache == cache = "none" /\ InitStore

InitCall ==
    /\ max_retries \in 0..MaxRetries
    /\ backoff_min \in 1..MaxBackoff
    /\ backoff_max \in 1..MaxBackoff
    /\ last = 0
    /\ now = 0
    /\ waited = FALSE
    /\ limSleep = None
    /\ flip = FALSE
    /\ pc = "idle"
    /\ endpoint = ""
    /\ params = None
    /\ attempt = 0
    /\ backoff = 0
    /\ q = None
    /\ attempts = 0
    /\ waits = 0
    /\ sleeps = << >>
    /\ resp = None
    /\ priorTransient = TRUE
    /\ outcome = "none"
    /\ lastCall = NoCall
    /\ lastSummary = NoSummary
    /\ places = NoPlaces
    /\ xl = NoBatch
    /\ lookup = NoLookup
    /\ race = NoRace

\* RateLimiter( qps )
InitRate(choices) ==
    /\ qps \in choices
    /\ interval = Interval(qps)

\* Maps( api_key, qps, max_retries, backoff_min, backoff_max )
Init == InitRate(GatewayQps) /\ InitCall /\ InitCache

\* a RateLimiter of its own, and a gateway that is never called
InitLimiter ==
    /\ InitRate(QpsChoices) /\ InitCall /\ InitCache
    /\ max_retries = 0 /\ backoff_min = 1 /\ backoff_max = 1

\* ---------------------------------------------------------------- actions
\* time passes while no request is running
Tick ==
    /\ pc # "loop"
    /\ now < MaxClock
    /\ now' = now + 1
    /\ UNCHANGED << callerVars, configVars, limiterVars, callVars, cacheVars >>

\* RateLimiter.wait( ) called directly, by the one caller
Wait ==
    /\ pc # "loop"
    /\ \E over \in 0..MaxJitter :
         LET w == wait(interval, last, now, over)
         IN  /\ w.now <= MaxClock
             /\ now' = w.now
             /\ last' = w.last
             /\ limSleep' = w.sleep
             /\ waited' = (waited \/ w.recorded)
             /\ flip' = ~flip
    /\ UNCHANGED << callerVars, configVars, interval, callVars, cacheVars >>

\* Maps.request up to the loop
Request(e, p) ==
    /\ pc # "loop"
    /\ endpoint' = e
    /\ params' = p
    /\ attempt' = 0
    /\ backoff' = backoff_min
    /\ pc' = "loop"
    /\ q' = None
    /\ attempts' = 0
    /\ waits' = 0
    /\ sleeps' = << >>
    /\ resp' = None
    /\ priorTransient' = TRUE
    /\ outcome' = "none"
    /\ UNCHANGED << callerVars, configVars, limiterVars, now, cacheVars >>

\* one iteration of the loop of Maps.request: wait( ), the GET, and either
\* the return, the raise or the backoff sleep.  everyTime is whether wait( )
\* is inside the loop, capped whether the clock is kept within MaxClock.
AttemptBody(everyTime, capped) ==
    /\ pc = "loop"
    /\ \E r \in Responses, over \in 0..MaxJitter, net \in 0..MaxJitter :
         LET called == everyTime \/ attempt = 0
             w == IF called THEN wait(interval, last, now, over)
                  ELSE [last |-> last, now |-> now, sleep |-> None,
                        recorded |-> FALSE]
             tGet == w.now + net
             ex == Raised(r)
             a == attempt + 1
             retry == ex \in CAUGHT /\ ~Exhausted(a)
         IN  /\ last' = w.last
             /\ waits' = IF called THEN waits + 1 ELSE waits
             /\ q' = Some(Query(params))
             /\ attempts' = attempts + 1
             /\ resp' = Some(r)
             /\ priorTransient' =
                    (priorTransient /\ (resp = None \/ IsTransientFailure(resp[1])))
             /\ attempt' = IF ex \in CAUGHT THEN a ELSE attempt
             /\ IF retry
                THEN /\ now' = tGet + backoff
                     /\ sleeps' = Append(sleeps, backoff)
                     /\ backoff' = NextBackoff(backoff)
                     /\ pc' = "loop"
                     /\ outcome' = "none"
                ELSE /\ now' = tGet
                     /\ pc' = "done"
                     /\ outcome' = IF ex = "none" THEN "returned"
                                   ELSE IF ex \in CAUGHT THEN "GatewayError"
                                   ELSE ex
                     /\ UNCHANGED << sleeps, backoff >>
             /\ capped => now' <= MaxClock
    /\ UNCHANGED << callerVars, configVars, interval, waited, limSleep, flip, endpoint, params,
                    cacheVars >>

AttemptWaitOnce == AttemptBody(FALSE, TRUE)
Attempt == AttemptBody(TRUE, TRUE)

Next ==
    \/ Tick
    \/ \E c \in Calls : Request(c.endpoint, c.params)
    \/ Attempt

Spec == Init /\ [][Next]_vars

\* one Maps.request call from its start to its end, however long it takes;
\* the thread that runs the loop keeps running, and every GET returns or
\* times out
AttemptToEnd == AttemptBody(TRUE, FALSE)
UsualCall == [endpoint |-> "geocode/json", params |-> Some([x \in {"address"} |-> "A"])]
NextLive ==
    \/ pc = "idle" /\ Request(UsualCall.endpoint, UsualCall.params)
    \/ AttemptToEnd
InitLive == InitRate({Some(1)}) /\ InitCall /\ InitCache /\ backoff_min = 1
SpecLive == InitLive /\ [][NextLive]_vars /\ WF_vars(AttemptToEnd)

\* ----------------------------------------------------------- cache actions
\* the value of the set call that came right before a get of key k, None when
\* the call before was not a set of k
JustSet(k) == IF lastOp.op = "set" /\ lastOp.key = k THEN lastOp.value ELSE None

\* InMemoryCache.set
MemSet(k, v) ==
    /\ cache = "InMemoryCache"
    /\ store' = MapPut(store, k, v)
    /\ written' = Remember(written, k, v)
    /\ overwrote' = (overwrote \/ Replaces(written, k, v))
    /\ lastOp' = [op |-> "set", key |-> k, value |-> Some(v)]
    /\ got' = None
    /\ UNCHANGED << callerVars, configVars, limiterVars, now, callVars, cache, db, conn, reopened >>

\* InMemoryCache.get
MemGet(k) ==
    /\ cache = "InMemoryCache"
    /\ got' = MemGetResult(store, k)
    /\ lastOp' = [op |-> "get", key |-> k, value |-> JustSet(k)]
    /\ UNCHANGED << callerVars, configVars, limiterVars, now, callVars, cache, store, db, conn,
                    written, reopened, overwrote >>

\* SQLiteCache.__init__ on the one storage path
SqlOpen ==
    /\ cache = "SQLiteCache"
    /\ db' = CreateTable(db)
    /\ conn' = TRUE
    /\ reopened' = (reopened \/ DOMAIN written # {})
    /\ lastOp' = NoOp
    /\ got' = None
    /\ UNCHANGED << callerVars, configVars, limiterVars, now, callVars, cache, store, written,
                    overwrote >>

\* SQLiteCache.set
SqlSet(k, v) ==
    /\ cache = "SQLiteCache"
    /\ conn
    /\ db' = [db EXCEPT !.kv = InsertOrReplace(db.kv, k, dumps(v))]
    /\ written' = Remember(written, k, v)
    /\ overwrote' = (overwrote \/ Replaces(written, k, v))
    /\ lastOp' = [op |-> "set", key |-> k, value |-> Some(v)]
    /\ got' = None
    /\ UNCHANGED << callerVars, configVars, limiterVars, now, callVars, cache, store, conn, reopened >>

\* SQLiteCache.get
SqlGet(k) ==
    /\ cache = "SQLiteCache"
    /\ conn
    /\ got' = SqlGetResult(db, k)
    /\ lastOp' = [op |-> "get", key |-> k, value |-> JustSet(k)]
    /\ UNCHANGED << callerVars, configVars, limiterVars, now, callVars, cache, store, db, conn,
                    written, reopened, overwrote >>

\* one of the two backends, and a gateway that is never called
InitCaches ==
    /\ InitRate({None}) /\ InitCall /\ InitStore
    /\ max_retries = 0 /\ backoff_min = 1 /\ backoff_max = 1
    /\ cache \in {"InMemoryCache", "SQLiteCache"}

NextCache ==
    \/ \E k \in CacheKeys, v \in PyValues : MemSet(k, v)
    \/ \E k \in CacheKeys : MemGet(k)
    \/ SqlOpen
    \/ \E k \in CacheKeys, v \in PyValues : SqlSet(k, v)
    \/ \E k \in CacheKeys : SqlGet(k)

SpecCache == InitCaches /\ [][NextCache]_vars

\* ------------------------------------------------- the two backends side by side
\* an InMemoryCache and a SQLiteCache on a new file
InitBoth ==
    /\ InitRate({None}) /\ InitCall
    /\ max_retries = 0 /\ backoff_min = 1 /\ backoff_max = 1
    /\ cache = "both"
    /\ store = [x \in {} |-> << >>]
    /\ db = CreateTable([exists |-> FALSE, kv |-> [x \in {} |-> << >>]])
    /\ conn = TRUE
    /\ written = [x \in {} |-> << >>]
    /\ lastOp = NoOp
    /\ got = None
    /\ reopened = FALSE
    /\ overwrote = FALSE

\* set( k, v ) on both
BothSet(k, v) ==
    /\ store' = MapPut(store, k, v)
    /\ db' = [db EXCEPT !.kv = InsertOrReplace(db.kv, k, dumps(v))]
    /\ written' = Remember(written, k, v)
    /\ overwrote' = (overwrote \/ Replaces(written, k, v))
    /\ lastOp' = [op |-> "set", key |-> k, value |-> Some(v)]
    /\ got' = None
    /\ UNCHANGED << callerVars, configVars, limiterVars, now, callVars, cache, conn, reopened >>

\* get( k ) on both: what InMemoryCache returns and what SQLiteCache returns
BothGet(k) ==
    /\ got' = << MemGetResult(store, k), SqlGetResult(db, k) >>
    /\ lastOp' = [op |-> "get", key |-> k, value |-> JustSet(k)]
    /\ UNCHANGED << callerVars, configVars, limiterVars, now, callVars, cache, store, db, conn,
                    written, reopened, overwrote >>

\* the values are JSON objects: dicts of up to two string keys with a str or
\* a list under each
NextBoth ==
    LET Members == {[kk |-> "str", k |-> k, vk |-> va[1], v |-> va[2]] :
                       k \in {"1", "2"}, va \in {<<"str", "x">>, <<"list", "[1]">>}}
        JsonObjects ==
            {d \in UNION {[1..n -> Members] : n \in 0..2} :
                \A i, j \in DOMAIN d : d[i].k = d[j].k => i = j}
    IN  \/ \E k \in CacheKeys, v \in JsonObjects : BothSet(k, v)
        \/ \E k \in CacheKeys : BothGet(k)
SpecBoth == InitBoth /\ [][NextBoth]_vars

\* Geocoder( maps, cache ) and Places( maps, cache ) on one cache object, as
\* app.py and Excel.__init__ build them; the gateway is idle between calls
NoFile == [exists |-> FALSE, kv |-> [x \in {} |-> << >>]]
InitServices ==
    /\ InitRate({None}) /\ InitCall
    /\ max_retries = 0 /\ backoff_min = 1 /\ backoff_max = 1
    /\ cache \in {"none", "InMemoryCache", "SQLiteCache"}
    /\ store = [x \in {} |-> << >>]
    /\ db = IF cache = "SQLiteCache" THEN CreateTable(NoFile) ELSE NoFile
    /\ conn = (cache = "SQLiteCache")
    /\ written = [x \in {} |-> << >>]
    /\ lastOp = NoOp
    /\ got = None
    /\ reopened = FALSE
    /\ overwrote = FALSE

serviceFrame ==
    << configVars, limiterVars, now, callVars, cache, conn, written, lastOp, got,
       reopened, overwrote, xl, lookup, race, lastSummary, places >>

\* cache.set( k, v ) by a client of the cache object
Seed(k, v) ==
    /\ cache # "none"
    /\ Cardinality(DOMAIN store \cup DOMAIN db.kv \cup {k}) <= MaxCached
    /\ store' = cset(CacheOf, k, v).store
    /\ db' = cset(CacheOf, k, v).db
    /\ lastCall' = NoCall
    /\ UNCHANGED serviceFrame

\* one call of Geocoder.freeform
Freeform(address, country, up) ==
    LET r == freeform(CacheOf, address, country, up)
        held == IF cache = "none" THEN None
                ELSE cget(CacheOf, key_for("geocode", << address, OrEmpty(country) >>))
    IN  /\ lastCall' = CallOf("freeform", address, country, << up >>, held, r)
        /\ store' = r.cache.store
        /\ db' = r.cache.db
        /\ UNCHANGED serviceFrame

\* one call of Places.text_to_location
TextToLocation(query, country, up1, up2) ==
    LET r == text_to_location(CacheOf, query, country, up1, up2)
        held == IF cache = "none" THEN None
                ELSE cget(CacheOf, PlacesKey(query, country))
    IN  /\ lastCall' = CallOf("text_to_location", query, country, << up1, up2 >>, held, r)
        /\ store' = r.cache.store
        /\ db' = r.cache.db
        /\ UNCHANGED serviceFrame

NextServices ==
    \/ \E k \in ServiceKeys, v \in ServiceValues : Seed(k, v)
    \/ \E a \in Addresses, h \in Countries, up \in GeocodeAnswers : Freeform(a, h, up)
    \/ \E qu \in Queries, h \in Countries, up1 \in SearchAnswers, up2 \in DetailsAnswers :
          TextToLocation(qu, h, up1, up2)

SpecServices == InitServices /\ [][NextServices]_vars

callerFrame ==
    << configVars, limiterVars, now, callVars, cache, conn, written, lastOp, got,
       reopened, overwrote, lastCall, race, lastSummary, places >>

\* Excel.enrich_from_address up to its loop; cntry is a column or None
StartEnrichFromAddress(cntry) ==
    /\ xl.pc = "idle"
    /\ xl' = [NoBatch EXCEPT !.fn = "enrich_from_address", !.pc = "loop", !.cntry = cntry]
    /\ lookup' = NoLookup
    /\ UNCHANGED << callerFrame, store, db >>

\* one iteration of the loop of Excel.enrich_from_address
RowFromAddress(row, up, pl) ==
    /\ xl.fn = "enrich_from_address" /\ xl.pc = "loop"
    /\ Len(xl.outputs) < MaxRows
    /\ LET addr == strip(row.Address)
           hint == IF InColumns(xl.cntry)
                   THEN Some(upper(strip(OrEmpty(RowGet(row, xl.cntry))))) ELSE None
           look == AddressLookup(CacheOf, addr, hint, up, pl)
           r == freeform(CacheOf, addr, hint, up)
           p == text_to_location(CacheOf, addr, hint, pl[1], pl[2])
       IN  IF addr = << >>
           THEN /\ xl' = [xl EXCEPT !.row = Some(row), !.outputs = Append(@, Skipped)]
                /\ lookup' = NoLookup
                /\ UNCHANGED << store, db >>
           ELSE /\ store' = look.cache.store
                /\ db' = look.cache.db
                /\ IF look.g = None
                   THEN \* g.get raises AttributeError, which leaves the method
                        /\ xl' = [xl EXCEPT !.row = Some(row), !.pc = "raised",
                                            !.exc = "AttributeError"]
                        /\ lookup' = LookupOf(xl.fn, addr, hint, r, p, look, FALSE)
                   ELSE /\ xl' = [xl EXCEPT !.row = Some(row), !.outputs =
                                      Append(@, OutputRow(look.g[1], look.status))]
                        /\ lookup' = LookupOf(xl.fn, addr, hint, r, p, look, TRUE)
    /\ UNCHANGED callerFrame

\* the end of Excel.enrich_from_address: self.write( df, outpath, sheet )
EndFromAddress ==
    /\ xl.fn = "enrich_from_address" /\ xl.pc = "loop"
    /\ xl' = [xl EXCEPT !.row = None,
                        !.pc = IF "write" \in ExcelAttrs THEN "written" ELSE "raised",
                        !.exc = IF "write" \in ExcelAttrs THEN "none" ELSE "AttributeError"]
    /\ UNCHANGED << callerFrame, store, db, lookup >>

\* Excel.enrich up to its loop; state is a column or None
StartEnrich(state) ==
    /\ xl.pc = "idle"
    /\ xl' = [NoBatch EXCEPT !.fn = "enrich", !.pc = "loop", !.city = ColumnArg("City"),
                             !.state = state, !.cntry = ColumnArg("Country")]
    /\ lookup' = NoLookup
    /\ UNCHANGED << callerFrame, store, db >>

\* one iteration of the loop of Excel.enrich; the names city and state are
\* bound anew by every iteration, and any exception is shown by the outer
\* except clause, which ends the method
RowEnrich(row, up, pl) ==
    /\ xl.fn = "enrich" /\ xl.pc = "loop"
    /\ Len(xl.outputs) < MaxRows
    /\ IF RowGet(row, xl.city) = None
       THEN /\ xl' = [xl EXCEPT !.row = Some(row), !.pc = "shown", !.exc = "AttributeError"]
            /\ lookup' = NoLookup
            /\ UNCHANGED << store, db >>
       ELSE
       LET city == strip(RowGet(row, xl.city)[1])
           state == IF InColumns(xl.state) THEN strip(RowGet(row, xl.state)[1]) ELSE << >>
           country == strip(RowGet(row, xl.cntry)[1])
           bound == [xl EXCEPT !.row = Some(row), !.city = ValueArg(city),
                               !.state = ValueArg(state)]
           look == EnrichLookup(CacheOf, city, state, country, up, pl)
           query == join(<<",", " ">>, SelectSeq(<< city, state, country >>,
                                                  LAMBDA x : x # << >>))
           r == city_state_country(CacheOf, city, state, country, up)
           p == text_to_location(CacheOf, query, Some(country), pl[1], pl[2])
       IN  IF city = << >> /\ state = << >> /\ country = << >>
           THEN /\ xl' = [bound EXCEPT !.outputs = Append(@, Skipped)]
                /\ lookup' = NoLookup
                /\ UNCHANGED << store, db >>
           ELSE /\ store' = look.cache.store
                /\ db' = look.cache.db
                /\ IF look.g = None
                   THEN /\ xl' = [bound EXCEPT !.pc = "shown", !.exc = "AttributeError"]
                        /\ lookup' = LookupOf(xl.fn, query, Some(country), r, p, look, FALSE)
                   ELSE /\ xl' = [bound EXCEPT !.outputs =
                                      Append(@, OutputRow(look.g[1], look.status))]
                        /\ lookup' = LookupOf(xl.fn, query, Some(country), r, p, look, TRUE)
    /\ UNCHANGED callerFrame

\* the end of Excel.enrich: self._write( df, outpath, sheet )
EndEnrich ==
    /\ xl.fn = "enrich" /\ xl.pc = "loop"
    /\ xl' = [xl EXCEPT !.row = None,
                        !.pc = IF "_write" \in ExcelAttrs THEN "written" ELSE "shown",
                        !.exc = IF "_write" \in ExcelAttrs THEN "none" ELSE "AttributeError"]
    /\ UNCHANGED << callerFrame, store, db, lookup >>

\* the 'Resolve Location' button of app.py with a non-empty query
AppResolve(query, up, pl) ==
    /\ xl.pc = "idle"
    /\ query # << >>
    /\ LET look == AppLookup(CacheOf, query, up, pl)
           r == freeform(CacheOf, query, None, up)
           p == text_to_location(CacheOf, query, None, pl[1], pl[2])
       IN  /\ store' = look.cache.store
           /\ db' = look.cache.db
           /\ lookup' = LookupOf("app", query, None, r, p, look, look.status = "json")
    /\ UNCHANGED << callerFrame, xl >>

NextCallers ==
    \/ \E k \in ServiceKeys : xl.pc = "idle" /\ lookup = NoLookup /\ Seed(k, Cached)
    \/ \E cntry \in {NoArg, ColumnArg("Country")} : StartEnrichFromAddress(cntry)
    \/ \E row \in RowChoices, up \in GeocodeAnswers, pl \in PlacesAnswers :
          RowFromAddress(row, up, pl)
    \/ EndFromAddress
    \/ \E state \in {NoArg, ColumnArg("State")} : StartEnrich(state)
    \/ \E row \in RowChoices, up \in GeocodeAnswers, pl \in PlacesAnswers :
          RowEnrich(row, up, pl)
    \/ EndEnrich
    \/ \E qu \in Addresses, up \in GeocodeAnswers, pl \in PlacesAnswers : AppResolve(qu, up, pl)

SpecCallers == InitServices /\ [][NextCallers]_vars

raceFrame ==
    << configVars, interval, waited, limSleep, flip, callVars, cacheVars, lastCall, xl,
       lookup, lastSummary, places >>

\* thread i calls wait( ): the early return, or now = time.time( )
Enter(i) ==
    /\ race.th[i].pc \in {"idle", "returned"}
    /\ race' = [race EXCEPT !.th[i] =
                   IF WaitIsNoOp(interval) THEN [NoThread EXCEPT !.pc = "returned"]
                   ELSE [NoThread EXCEPT !.pc = "delta", !.t = now]]
    /\ UNCHANGED << raceFrame, last, now >>

\* delta = now - self._last and the test delta < self._interval
ReadLast(i) ==
    /\ race.th[i].pc = "delta"
    /\ LET s == WaitSleep(interval, last, race.th[i].t)
       IN  race' = [race EXCEPT !.th[i].seen = last,
                                !.th[i].pc = IF s = None THEN "record" ELSE "sleep",
                                !.th[i].wake = IF s = None THEN 0 ELSE now + s[1]]
    /\ UNCHANGED << raceFrame, last, now >>

\* time.sleep( self._interval - delta ) is over
Wake(i) ==
    /\ race.th[i].pc = "sleep"
    /\ now >= race.th[i].wake
    /\ race' = [race EXCEPT !.th[i].pc = "record"]
    /\ UNCHANGED << raceFrame, last, now >>

\* self._last = time.time( ), and the return
Record(i) ==
    /\ race.th[i].pc = "record"
    /\ last' = WaitRecord(race.th[i].t, now)
    /\ race' = [th |-> [j \in Threads |->
                          IF j = i THEN [race.th[i] EXCEPT !.pc = "returned"]
                          ELSE IF race.th[j].pc \in {"sleep", "record"}
                          THEN [race.th[j] EXCEPT !.stale = TRUE]
                          ELSE race.th[j]],
                recorded |-> TRUE,
                gap |-> IF race.recorded THEN Some(last' - last) ELSE None,
                staleRet |-> race.th[i].stale]
    /\ UNCHANGED << raceFrame, now >>

NextRace ==
    \/ Tick
    \/ \E i \in Threads : Enter(i)
    \/ \E i \in Threads : ReadLast(i)
    \/ \E i \in Threads : Wake(i)
    \/ \E i \in Threads : Record(i)

SpecRace == InitLimiter /\ [][NextRace]_vars

NextLimiter ==
    \/ Tick
    \/ Wait

SpecLimiter == InitLimiter /\ [][NextLimiter]_vars

\* ----------------------------------------------------------------- claims
QpsPositive == qps # None /\ qps[1] > 0
MinInterval == TicksPerSecond \div qps[1]
NonTransientStatus(r) ==
    r.kind = "http" /\ r.status \notin {200, 408, 429, 500, 502, 503, 504}
Parsed200(r) == r.kind = "http" /\ r.status = 200 /\ r.json

\* C1: a response with an HTTP status outside {200, 408, 429, 500, 502, 503,
\* 504} ends the call at once with GatewayError; when it is the first
\* response the call has made one attempt and slept no backoff.
C1_NonTransientFailsAtOnce ==
    (resp # None /\ NonTransientStatus(resp[1]))
        => /\ pc = "done"
           /\ outcome = "GatewayError"
           /\ (attempts = 1 => sleeps = << >>)

\* C2: while every response so far is a transient failure the call goes on
\* up to attempt max_retries+1, where it fails with GatewayError; a 200
\* with a body that parses after transient failures only ends the call, at
\* that attempt, with the parsed body returned.
C2_RetryCount ==
    resp # None =>
        LET r == resp[1]
            allTransient == priorTransient /\ IsTransientFailure(r)
        IN  /\ (priorTransient /\ Parsed200(r))
                   => (pc = "done" /\ outcome = "returned"
                       /\ attempts <= max_retries + 1)
            /\ (allTransient /\ attempts < max_retries + 1)
                   => (pc = "loop" /\ outcome = "none")
            /\ (allTransient /\ attempts >= max_retries + 1)
                   => (pc = "done" /\ outcome = "GatewayError"
                       /\ attempts = max_retries + 1)

C2_Witness ==
    /\ pc = "done" /\ outcome = "returned" /\ priorTransient
    /\ attempts = 3 /\ max_retries = 2

\* C3: with 0 < backoff_min <= backoff_max the n-th backoff sleep of a call
\* (n from 0) lasts min(backoff_min * 2^n, backoff_max), there are at most
\* max_retries of them and none is longer than backoff_max.
C3_Backoff ==
    (0 < backoff_min /\ backoff_min <= backoff_max)
        => /\ Len(sleeps) <= max_retries
           /\ \A n \in 1..Len(sleeps) :
                /\ sleeps[n] = Min(backoff_min * Pow2(n - 1), backoff_max)
                /\ sleeps[n] <= backoff_max

C3_Witness ==
    /\ backoff_min < backoff_max /\ backoff_min * 2 > backoff_max
    /\ Len(sleeps) = 2 /\ sleeps[2] = backoff_max

\* C4: a call that has ended either returned the parsed body of a 200
\* response or raised GatewayError.
C4_TwoOutcomes ==
    pc = "done"
        => \/ outcome = "returned" /\ resp # None /\ Parsed200(resp[1])
           \/ outcome = "GatewayError"

\* C5: a call with an empty endpoint or with empty or missing parameters
\* consults the limiter never, makes no outbound attempt and ends with
\* InvalidArgument.
C5_FailFast ==
    (pc # "idle" /\ (endpoint = "" \/ ~Truthy(params)))
        => /\ attempts = 0
           /\ waits = 0
           /\ (pc = "done" => outcome = "InvalidArgument")

\* C6: with qps > 0, a wait( ) that follows another wait( ) records a time
\* at least 1/qps after the time the other one recorded.
C6_Separation ==
    [][(flip' # flip /\ waited /\ QpsPositive) => last' - last >= MinInterval]_vars

C6_Witness == QpsPositive /\ waited /\ flip = FALSE /\ last > MinInterval

\* C27: every attempt of Maps.request leaves the caller's params as they
\* were, and its query holds the caller's entries other than key, with key
\* bound to the gateway's credential whatever key the caller supplied.
C27_ParamsUntouched ==
    [][(attempts' = attempts + 1) =>
          /\ params' = params
          /\ q' # None
          /\ LET given == IF params = None THEN EmptyDict ELSE params[1]
             IN  /\ DOMAIN q'[1] = DOMAIN given \cup {"key"}
                 /\ q'[1]["key"] = api_key
                 /\ \A x \in DOMAIN given \ {"key"} : q'[1][x] = given[x]]_vars

C27_Witness ==
    /\ attempts >= 2 /\ q # None
    /\ params # None /\ "key" \in DOMAIN params[1] /\ params[1]["key"] # api_key
    /\ q[1]["key"] = api_key

\* C28: a Maps.request call that has started eventually ends, by returning
\* or by raising, and it makes at most max_retries + 1 attempts and at most
\* max_retries backoff sleeps.
C28_Terminates ==
    /\ (pc = "loop") ~> (pc = "done")
    /\ [](attempts <= max_retries + 1 /\ Len(sleeps) <= max_retries)

C28_Witness ==
    /\ pc = "done" /\ max_retries = MaxRetries
    /\ attempts = max_retries + 1 /\ Len(sleeps) = max_retries
    /\ now > MaxClock

\* C26: on one shared limiter with qps > 0, a wait( ) records a time less
\* than 1/qps after the time recorded before it only when another wait( )
\* wrote _last after this one had read it; such a wait( ) exists.
C26_CloseOnlyWhenStale ==
    (QpsPositive /\ race.gap # None /\ race.gap[1] < MinInterval) => race.staleRet

C26_Witness ==
    /\ QpsPositive /\ race.gap # None /\ race.gap[1] < MinInterval /\ race.staleRet
    /\ \A i \in Threads : race.th[i].pc = "returned"
    /\ race.th[1].seen = race.th[2].seen

\* C7: with qps None, zero or negative, a wait( ) does not sleep, takes no
\* time and leaves the recorded time as it was.
C7_NoOp ==
    [][(flip' # flip /\ ~QpsPositive)
          => (last' = last /\ limSleep' = None /\ now' = now /\ ~waited')]_vars

C7_Witness == qps = Some(0) /\ flip /\ now > 0 /\ last = 0

\* C8 as stated: every outbound attempt comes with one wait( ) of its own,
\* and the recorded time advances on every attempt.
C8_WaitAdvancesLast ==
    [][/\ waits' = attempts'
       /\ (attempts' = attempts + 1) => (waits' = waits + 1 /\ last' > last)]_vars

\* C8: every outbound attempt comes with one wait( ) of its own; the
\* recorded time advances on every attempt when qps > 0 and stays as it was
\* when qps is None, zero or negative.
C8_WaitPerAttempt ==
    [][/\ waits' = attempts'
       /\ (attempts' = attempts + 1)
             => /\ waits' = waits + 1
                /\ QpsPositive => last' > last
                /\ ~QpsPositive => last' = last]_vars

C8_Witness == QpsPositive /\ attempts = 2 /\ waits = 2 /\ last > MinInterval

JsonNative(d) == \A i \in DOMAIN d : d[i].kk = "str" /\ d[i].vk # "tuple"
GetAfterSet == lastOp.op = "get" /\ lastOp.value # None

\* C9 as stated: on either backend a get that follows a set of the same key
\* returns a value equal to the one set.
C9_RoundTripAnyValue ==
    GetAfterSet => (got # None /\ DictEq(got[1], lastOp.value[1]))

\* C9: a get that follows a set of the same key returns, on InMemoryCache,
\* a value equal to the one set, and on SQLiteCache what json.loads makes of
\* its json.dumps, which is equal to the value when its keys are strings and
\* it holds no tuple.
C9_RoundTrip ==
    GetAfterSet =>
        /\ got # None
        /\ cache = "InMemoryCache" => DictEq(got[1], lastOp.value[1])
        /\ cache = "SQLiteCache" =>
              /\ got[1] = loads(dumps(lastOp.value[1]))
              /\ JsonNative(lastOp.value[1]) => DictEq(got[1], lastOp.value[1])

C9_Witness ==
    /\ cache = "SQLiteCache" /\ GetAfterSet /\ got # None
    /\ lastOp.value[1] # << >> /\ JsonNative(lastOp.value[1])
    /\ DictEq(got[1], lastOp.value[1])

\* C10 as stated: whatever was set, a SQLiteCache opened on the storage
\* path returns for every key the last value set for it.
C10_SurvivesAnyValue ==
    (cache = "SQLiteCache" /\ conn)
        => \A k \in CacheKeys :
              IF k \in DOMAIN written
              THEN /\ SqlGetResult(db, k) # None
                   /\ DictEq(SqlGetResult(db, k)[1], written[k])
              ELSE SqlGetResult(db, k) = None

\* C10: a SQLiteCache opened on the storage path finds the table, and
\* returns for every key what json.loads makes of the json.dumps of the last
\* value set for it, which is equal to that value when its keys are strings
\* and it holds no tuple; for a key never set it returns None.
C10_Survives ==
    (cache = "SQLiteCache" /\ conn)
        => /\ db.exists
           /\ \A k \in CacheKeys :
                IF k \in DOMAIN written
                THEN /\ SqlGetResult(db, k) = Some(loads(dumps(written[k])))
                     /\ JsonNative(written[k])
                            => DictEq(SqlGetResult(db, k)[1], written[k])
                ELSE SqlGetResult(db, k) = None

C10_Witness ==
    /\ cache = "SQLiteCache" /\ conn /\ reopened /\ lastOp = NoOp
    /\ DOMAIN written = CacheKeys
    /\ \E k \in CacheKeys : written[k] # << >> /\ JsonNative(written[k])

\* get(k) on the backend in use
GetResult(k) ==
    IF cache = "InMemoryCache" THEN MemGetResult(store, k) ELSE SqlGetResult(db, k)
Usable == cache = "InMemoryCache" \/ (cache = "SQLiteCache" /\ conn)

GeocodeResolves(up) ==
    /\ up.kind = "json" /\ up.body[1].status = "OK"
    /\ up.body[1].results # None /\ up.body[1].results[1] # << >>
\* the text search has a top result with a place identifier
SearchResolves(up) ==
    /\ up.kind = "json"
    /\ up.body[1].results # None /\ up.body[1].results[1] # << >>
    /\ ~Falsy(up.body[1].results[1][1].place_id)
IsFreeform == lastCall.fn = "freeform"
IsTextToLocation == lastCall.fn = "text_to_location"

\* C12: with no cache configured, freeform and text_to_location (called with
\* a non-empty query) go through the gateway on every call and, when the
\* upstream response carries a result, return the resolved location without
\* any error.
C12_NoCacheIsAMiss ==
    /\ (cache = "none" /\ IsFreeform) =>
          /\ Len(lastCall.reqs) = 1
          /\ GeocodeResolves(lastCall.ups[1]) =>
                /\ lastCall.ret =
                      Some(_flatten_geocode(lastCall.ups[1].body[1].results[1][1]))
                /\ lastCall.shown = "none" /\ lastCall.raised = "none"
    /\ (cache = "none" /\ IsTextToLocation /\ lastCall.arg # << >>) =>
          /\ Len(lastCall.reqs) >= 1
          /\ (/\ Len(lastCall.ups) = 2 /\ SearchResolves(lastCall.ups[1])
              /\ lastCall.ups[2].kind = "json") =>
                /\ lastCall.ret = Some(PlacesOutput(DetailsOf(lastCall.ups[2].body[1])))
                /\ lastCall.shown = "none" /\ lastCall.raised = "none"

\* C13: freeform fails with NotFound, visible to its caller, whenever the
\* gateway returns a response whose status is not "OK" or whose results are
\* missing or empty.
C13_FreeformNotFound ==
    (/\ IsFreeform /\ Len(lastCall.ups) = 1 /\ lastCall.ups[1].kind = "json"
     /\ ~GeocodeResolves(lastCall.ups[1])) =>
        lastCall.raised = "NotFound"

\* C14: with a cache configured, when freeform resolves a cache miss
\* successfully, it returns the location and the cache holds that location
\* under the derived key.
C14_PopulatesCache ==
    (/\ IsFreeform /\ cache # "none" /\ ~lastCall.hit
     /\ Len(lastCall.ups) = 1 /\ GeocodeResolves(lastCall.ups[1])) =>
        LET loc == _flatten_geocode(lastCall.ups[1].body[1].results[1][1])
        IN  /\ lastCall.ret = Some(loc)
            /\ cget(CacheOf, lastCall.key) = Some(loc)

\* C15: when the cache already holds a non-empty value under the key derived
\* for the query, freeform and text_to_location return exactly that value,
\* issue no gateway request and leave the cache unchanged.
C15_HitReturnsCached ==
    (/\ IsFreeform \/ (IsTextToLocation /\ lastCall.arg # << >>)
     /\ cache # "none" /\ IsHit(lastCall.held)) =>
        /\ lastCall.ret = lastCall.held
        /\ lastCall.reqs = << >>
        /\ ~lastCall.changed

\* C16: the cache key of freeform is case-normalized on the country hint:
\* the key a call derives is the one derived for the same address with the
\* hint in upper case and with the hint in lower case.
C16_KeyCaseNormalized ==
    (IsFreeform /\ lastCall.country # None) =>
        /\ lastCall.key =
              key_for("geocode", << lastCall.arg, upper(lastCall.country[1]) >>)
        /\ lastCall.key =
              key_for("geocode", << lastCall.arg, lower(lastCall.country[1]) >>)

\* C17: text_to_location called with a non-empty query and no country hint
\* issues a text search carrying the query and no region and, when a top
\* result with a place identifier exists, returns the resolved location.
C17_CountryOptional ==
    (/\ IsTextToLocation /\ lastCall.arg # << >> /\ lastCall.country = None
     /\ ~IsHit(lastCall.held)) =>
        /\ Len(lastCall.reqs) >= 1
        /\ lastCall.reqs[1] = [endpoint |-> "place/textsearch/json",
                               params |-> << <<"query", Text(lastCall.arg)>> >>]
        /\ (/\ Len(lastCall.ups) = 2 /\ SearchResolves(lastCall.ups[1])
            /\ lastCall.ups[2].kind = "json") => lastCall.ret # None

\* C18: text_to_location fails with NotFound, visible to its caller, when
\* the text search has no results or its first result lacks a place
\* identifier.
C18_PlacesNotFound ==
    (/\ IsTextToLocation /\ Len(lastCall.ups) >= 1 /\ lastCall.ups[1].kind = "json"
     /\ ~SearchResolves(lastCall.ups[1])) =>
        lastCall.raised = "NotFound"

\* C25: a GatewayError raised by Maps.request during freeform or
\* text_to_location reaches the caller of the service as a GatewayError.
C25_GatewayErrorSurfaced ==
    \A i \in DOMAIN lastCall.ups :
        (lastCall.ups[i].kind = "raise" /\ lastCall.ups[i].exc = "GatewayError") =>
            lastCall.raised = "GatewayError"

\* --------------------------------------------------- claims on the callers
\* C19: in Excel.enrich_from_address and Excel.enrich, for a row with usable
\* input where the Geocoder fails with NotFound and Places returns a result
\* for the equivalent query, the row's output carries that result and the
\* row's status is ok_places.
C19_FallbackToPlaces ==
    (/\ lookup.caller \in {"enrich_from_address", "enrich"}
     /\ lookup.geoShown = "NotFound" /\ lookup.placesRet # None) =>
        /\ lookup.recorded
        /\ lookup.status = "ok_places"
        /\ lookup.g = lookup.placesRet
        /\ xl.outputs # << >>
        /\ xl.outputs[Len(xl.outputs)] = OutputRow(lookup.placesRet[1], "ok_places")

\* C20: in Excel.enrich_from_address and in the app, a Geocoder lookup that
\* fails (NotFound or GatewayError) is followed by exactly one
\* text_to_location attempt, and one that succeeds by none.
C20_PlacesAfterFailure ==
    lookup.caller \in {"enrich_from_address", "app"} =>
        /\ lookup.geoShown \in {"NotFound", "GatewayError"} => lookup.attempts = 1
        /\ lookup.geoRet # None => lookup.attempts = 0

\* the row in hand has all its enrichment columns blank
BlankRow ==
    /\ xl.row # None
    /\ xl.row[1].Address = << >> /\ xl.row[1].City = << >>
    /\ xl.row[1].State = << >> /\ xl.row[1].Country = << >>
\* the output recorded last
LastOutput == xl.outputs[Len(xl.outputs)]
\* both services fail for the lookup's query
BothFail ==
    /\ lookup.caller \in {"enrich_from_address", "enrich"}
    /\ lookup.geoShown \in {"NotFound", "GatewayError"}
    /\ lookup.placesRet = None

\* C21: in batch enrichment, for a row where both the Geocoder and Places
\* fail, the row is recorded with status not_found and every output field
\* null.
C21_BothFailNotFound ==
    BothFail =>
        /\ lookup.recorded
        /\ lookup.status = "not_found"
        /\ xl.outputs # << >>
        /\ LastOutput = [values |-> [key \in OutputKeys |-> PyNone],
                         geocode_status |-> "not_found"]

\* C22: in batch enrichment, a row whose enrichment columns are all blank is
\* recorded with status skipped_empty and every other field null, and no
\* call is made to the services for it.
C22_BlankRowSkipped ==
    (xl.fn # "none" /\ BlankRow) =>
        /\ xl.pc = "loop"
        /\ xl.outputs # << >>
        /\ LastOutput = Skipped
        /\ lookup = NoLookup

\* C23: batch enrichment isolates rows: no row's failure ends the run, and
\* every row taken has one status among ok, ok_places, not_found and
\* skipped_empty recorded.
C23_RowsIsolated ==
    xl.fn # "none" =>
        /\ xl.pc \in {"loop", "written"}
        /\ \A i \in DOMAIN xl.outputs :
              xl.outputs[i].geocode_status \in {"ok", "ok_places", "not_found", "skipped_empty"}

\* C24: a lookup whose status is ok or ok_places has a location returned by
\* the service, with at least one normalized field present, and records it.
C24_NoEmptySuccess ==
    (lookup.caller \in {"enrich_from_address", "enrich"}
     /\ lookup.status \in {"ok", "ok_places"}) =>
        /\ lookup.g # None
        /\ \E key \in OutputKeys : ~Falsy(DictGet(lookup.g[1], key))
        /\ lookup.recorded

\* ------------------------------------------------------------ distance calls
\* one call of DistanceMatrix.summary: the request through the gateway, then
\* the fields taken from what it returned; a GatewayError is not caught
Summary(origin, destination, mode, ans) ==
    LET req == [endpoint |-> "distancematrix/json",
                params |-> [origins |-> _fmt(origin),
                            destinations |-> _fmt(destination), mode |-> mode]]
        r == IF ans.kind = "raise" THEN [raised |-> ans.exc, ret |-> None]
             ELSE summary(ans.body[1])
    IN  /\ lastSummary' = [fn |-> "summary", req |-> Some(req), data |-> ans.body,
                           raised |-> r.raised, ret |-> r.ret]
        /\ UNCHANGED << configVars, limiterVars, now, callVars, cacheVars, lastCall, xl,
                        lookup, race, places >>

\* origin and destination are an address or a ( lat, lng ) pair
NextDistance ==
    LET Origins == {JStr("1 Main St"), [t |-> "tuple", l |-> << "1.5", "2.5" >>]}
    IN  \E origin \in Origins, destination \in Origins, mode \in {"driving", "walking"},
           ans \in RoutingAnswers :
            Summary(origin, destination, mode, ans)
\* DistanceMatrix( maps ) over one gateway
InitDistance == InitLive /\ max_retries = 0 /\ backoff_min = 1 /\ backoff_max = 1
SpecDistance == InitDistance /\ [][NextDistance]_vars

\* the value at a path of keys and "[0]" steps in a JSON value, null when a
\* step is absent, null or empty
RECURSIVE At(_, _)
At(x, path) ==
    IF path = << >> THEN x
    ELSE IF Head(path) = "[0]"
         THEN IF x.t = "list" /\ Len(x.l) > 0 THEN At(x.l[1], Tail(path)) ELSE JNull
         ELSE IF x.t = "dict" /\ Head(path) \in DOMAIN x.o
              THEN At(x.o[Head(path)], Tail(path)) ELSE JNull
\* rows[0] and rows[0].elements[0], where they exist, are objects
Regular(data) ==
    /\ At(data, << "rows" >>).t = "list" /\ Len(At(data, << "rows" >>).l) > 0
           => At(data, << "rows", "[0]" >>).t = "dict"
    /\ At(data, << "rows", "[0]", "elements" >>).t = "list"
           /\ Len(At(data, << "rows", "[0]", "elements" >>).l) > 0
           => At(data, << "rows", "[0]", "elements", "[0]" >>).t = "dict"
FirstElement == << "rows", "[0]", "elements", "[0]" >>

\* C29: DistanceMatrix.summary maps the distance and duration sub-objects of
\* rows[0].elements[0] of the routing response to distance_text,
\* distance_meters, duration_text and duration_seconds; where rows, elements,
\* distance or duration is missing or empty the fields are null, and no
\* error is raised.
C29_SummaryFields ==
    (lastSummary.fn = "summary" /\ lastSummary.data # None /\ Regular(lastSummary.data[1]))
        => /\ lastSummary.raised = "none"
           /\ lastSummary.ret # None
           /\ LET data == lastSummary.data[1]
                  out == lastSummary.ret[1]
              IN  /\ DOMAIN out = {"distance_text", "distance_meters", "duration_text",
                                   "duration_seconds"}
                  /\ out.distance_text = At(data, FirstElement \o << "distance", "text" >>)
                  /\ out.distance_meters = At(data, FirstElement \o << "distance", "value" >>)
                  /\ out.duration_text = At(data, FirstElement \o << "duration", "text" >>)
                  /\ out.duration_seconds = At(data, FirstElement \o << "duration", "value" >>)
\* a response with rows but an element with neither distance nor duration,
\* answered with four nulls
C29_Witness ==
    /\ lastSummary.fn = "summary" /\ lastSummary.data # None
    /\ At(lastSummary.data[1], FirstElement).t = "dict"
    /\ At(lastSummary.data[1], FirstElement \o << "distance" >>) = JNull
    /\ At(lastSummary.data[1], FirstElement \o << "duration", "text" >>) = JNull
    /\ At(lastSummary.data[1], FirstElement \o << "duration", "value" >>) = JInt(600)
    /\ lastSummary.raised = "none"
    /\ lastSummary.ret = Some([distance_text |-> JNull, distance_meters |-> JNull,
                               duration_text |-> JNull, duration_seconds |-> JInt(600)])

\* ---------------------------------------------------- city, state and country
\* one call of Geocoder.city_state_country
CityStateCountry(city, state, ctry, up) ==
    LET a == city_query(city, state, ctry)
        r == city_state_country(CacheOf, city, state, ctry, up)
        held == IF cache = "none" THEN None
                ELSE cget(CacheOf, key_for("geocode", << a.query, OrEmpty(a._hint) >>))
    IN  /\ lastCall' = CallOf("city_state_country", << city, state, ctry >>, a._hint,
                              << up >>, held, r)
        /\ store' = r.cache.store
        /\ db' = r.cache.db
        /\ UNCHANGED serviceFrame

\* the country arguments are none, blank, a code, a padded code, three and
\* four letters; a client of the cache may have written two of the keys
NextCity ==
    LET CountryTokens ==
            {<< >>, <<" ">>, <<"u", "s">>, <<" ", "u", "s", " ">>, <<"u", "s", "s">>,
             <<"u", "s", "s", "u">>}
        CityKeys ==
            {key_for("geocode", << city_query(i[1], i[2], i[3]).query,
                                   OrEmpty(city_query(i[1], i[2], i[3])._hint) >>) :
                i \in {<< <<"a">>, <<"b">>, <<"u", "s">> >>, << <<"a">>, << >>, << >> >>}}
    IN  \/ \E k \in CityKeys, v \in ServiceValues : Seed(k, v)
        \/ \E city \in {<< >>, <<"a">>}, state \in {<< >>, <<"b">>}, ctry \in CountryTokens,
              up \in GeocodeAnswers : CityStateCountry(city, state, ctry, up)
SpecCity == InitServices /\ [][NextCity]_vars

\* a, b joined with ", " when both are there
Joined(a, b) == IF a = << >> THEN b ELSE IF b = << >> THEN a ELSE a \o <<",", " ">> \o b
\* the step is a call of city_state_country that gave freeform query and
\* hint and returned what freeform gives for them
Delegated(query, hint) ==
    /\ lastCall'.country = hint
    /\ \E up \in GeocodeAnswers :
          /\ lastCall'.ups # << >> => up = lastCall'.ups[1]
          /\ LET f == freeform(CacheOf, query, hint, up)
             IN  /\ lastCall'.ret = f.ret
                 /\ lastCall'.raised = f.raised
                 /\ lastCall'.shown = f.shown
                 /\ lastCall'.reqs = f.reqs
                 /\ lastCall'.key = f.key
                 /\ lastCall'.hit = f.hit
                 /\ store' = f.cache.store
                 /\ db' = f.cache.db

\* C30 as stated: city_state_country joins the non-empty parts among city,
\* state and country with ", " in that order, passes a country hint to
\* freeform if and only if the stripped country has 3 characters or fewer
\* (the hint being it upper-cased), and returns what freeform returns for
\* that query and hint.
C30_HintIffShort ==
    [][lastCall'.fn = "city_state_country"
          => LET city == lastCall'.arg[1]
                 state == lastCall'.arg[2]
                 ctry == lastCall'.arg[3]
             IN  Delegated(Joined(city, Joined(state, ctry)),
                           IF Len(strip(ctry)) <= 3 THEN Some(upper(strip(ctry)))
                           ELSE None)]_vars
\* C30 amended: the hint is passed if and only if the country is non-empty
\* and, stripped, has 3 characters or fewer; an empty country gives no
\* hint; query and delegation are as stated.
C30_HintIffShortNonEmpty ==
    [][lastCall'.fn = "city_state_country"
          => LET city == lastCall'.arg[1]
                 state == lastCall'.arg[2]
                 ctry == lastCall'.arg[3]
             IN  Delegated(Joined(city, Joined(state, ctry)),
                           IF ctry # << >> /\ Len(strip(ctry)) <= 3
                           THEN Some(upper(strip(ctry))) ELSE None)]_vars
\* a call with a padded two-letter country: the query keeps the padding, the
\* hint is the stripped code in upper case, and the answer of freeform came
\* back
C30_Witness ==
    /\ lastCall.fn = "city_state_country"
    /\ lastCall.arg = << <<"a">>, << >>, <<" ", "u", "s", " ">> >>
    /\ lastCall.country = Some(<<"U", "S">>)
    /\ Len(lastCall.reqs) = 1
    /\ lastCall.reqs[1] = GeocodeRequest(<<"a", ",", " ", " ", "u", "s", " ">>,
                                          Some(<<"U", "S">>))

\* ------------------------------------------- two threads on one Places object
placesFrame ==
    << configVars, limiterVars, now, callVars, cache, db, conn, written, lastOp, got,
       reopened, overwrote, lastCall, xl, lookup, race, lastSummary >>
\* the query each thread asks for
QueryOf(i) == IF i = 1 THEN <<"q">> ELSE <<"r">>
\* thread i moves on to position at
Goto(pl, i, at) == [pl EXCEPT !.th[i].pc = at]

\* thread i calls text_to_location( query, 'us' ): self.query = query,
\* self.country = country
SetQuery(i) ==
    /\ places.th[i].pc \in {"idle", "returned"}
    /\ places' = [places EXCEPT !.attrs.query = QueryOf(i),
                                !.attrs.country = Some(<<"u", "s">>),
                                !.th[i] = [pc |-> "key", query |-> QueryOf(i),
                                           _pid |-> PyNone, ret |-> None]]
    /\ UNCHANGED << placesFrame, store >>

\* self.key = f"places::{self.query}::{(self.country or '').upper( )}"
SetKey(i) ==
    /\ places.th[i].pc = "key"
    /\ places' = Goto([places EXCEPT !.attrs.key =
                          PlacesKey(places.attrs.query, places.attrs.country)], i, "get")
    /\ UNCHANGED << placesFrame, store >>

\* self.hit = self.cache.get( self.key ); if self.hit: return self.hit
CacheGet(i) ==
    /\ places.th[i].pc = "get"
    /\ LET hit == cget(CacheOf, places.attrs.key)
       IN  places' = [places EXCEPT !.attrs.hit = hit,
                                    !.th[i].pc = IF IsHit(hit) THEN "returned" ELSE "params",
                                    !.th[i].ret = IF IsHit(hit) THEN hit ELSE None]
    /\ UNCHANGED << placesFrame, store >>

\* self.params = { 'query': self.query }, and the region
SetParams(i) ==
    /\ places.th[i].pc = "params"
    /\ places' = Goto([places EXCEPT !.attrs.params =
                          Some(SearchRequest(places.attrs.query,
                                             places.attrs.country).params)], i, "search")
    /\ UNCHANGED << placesFrame, store >>

\* self.search = self.maps.request( 'place/textsearch/json', self.params )
Search(i) ==
    /\ places.th[i].pc = "search"
    /\ places' = Goto([places EXCEPT !.attrs.search =
                          Some(UpstreamSearch(places.attrs.params[1]))], i, "results")
    /\ UNCHANGED << placesFrame, store >>

\* self.results = self.search.get( 'results' )
SetResults(i) ==
    /\ places.th[i].pc = "results"
    /\ places' = Goto([places EXCEPT !.attrs.results = places.attrs.search[1].results],
                      i, "top")
    /\ UNCHANGED << placesFrame, store >>

\* _top = self.results[ 0 ]; _pid = _top.get( 'place_id' )
Top(i) ==
    /\ places.th[i].pc = "top"
    /\ places' = Goto([places EXCEPT !.th[i]._pid = places.attrs.results[1][1].place_id],
                      i, "details")
    /\ UNCHANGED << placesFrame, store >>

\* self.details = self.maps.request( 'place/details/json', ... ).get( 'result', { } )
Details(i) ==
    /\ places.th[i].pc = "details"
    /\ places' = Goto([places EXCEPT !.attrs.details =
                          Some(DetailsOf(UpstreamDetails(places.th[i]._pid)))], i, "output")
    /\ UNCHANGED << placesFrame, store >>

\* self.geometry and self.output, from self.details
Output(i) ==
    /\ places.th[i].pc = "output"
    /\ places' = Goto([places EXCEPT !.attrs.output =
                          Some(PlacesOutput(places.attrs.details[1]))], i, "set")
    /\ UNCHANGED << placesFrame, store >>

\* self.cache.set( self.key, self.output )
CacheSet(i) ==
    /\ places.th[i].pc = "set"
    /\ store' = cset(CacheOf, places.attrs.key, places.attrs.output[1]).store
    /\ places' = Goto(places, i, "return")
    /\ UNCHANGED placesFrame

\* return self.output
Return(i) ==
    /\ places.th[i].pc = "return"
    /\ places' = [places EXCEPT !.th[i].pc = "returned", !.th[i].ret = places.attrs.output]
    /\ UNCHANGED << placesFrame, store >>

NextShared ==
    \E i \in Threads :
        \/ SetQuery(i) \/ SetKey(i) \/ CacheGet(i) \/ SetParams(i) \/ Search(i)
        \/ SetResults(i) \/ Top(i) \/ Details(i) \/ Output(i) \/ CacheSet(i) \/ Return(i)
\* Places( maps, InMemoryCache( ) )
InitShared == InitServices /\ cache = "InMemoryCache"
SpecShared == InitShared /\ [][NextShared]_vars

\* ------------------------------------------------------- calls and their keys
\* freeform calls whose address may itself end in a country code, on a cache
\* whose client has set the key of one of them
NextKeys ==
    \/ \E v \in ServiceValues : Seed(key_for("geocode", << <<"a">>, <<"U", "S">> >>), v)
    \/ \E a \in {<<"a">>, <<"a", " ", "U", "S">>, <<"a", " ">>}, h \in Countries,
          up \in GeocodeAnswers : Freeform(a, h, up)
SpecKeys == InitServices /\ [][NextKeys]_vars

\* ------------------------------------------------- claims on the requests made
\* C31: the resolution services do not retry: a freeform call makes at most
\* one gateway request; a text_to_location call makes at most two, the text
\* search and then, only when its first result has a place identifier, one
\* details request for that identifier; no request follows one that failed,
\* and the cache is written only after the last request succeeded.
C31_NoRetry ==
    /\ IsFreeform =>
          /\ Len(lastCall.reqs) <= 1
          /\ \A i \in DOMAIN lastCall.reqs : lastCall.reqs[i].endpoint = "geocode/json"
          /\ lastCall.changed =>
                Len(lastCall.reqs) = 1 /\ lastCall.ups[1].kind = "json"
    /\ IsTextToLocation =>
          /\ Len(lastCall.reqs) <= 2
          /\ Len(lastCall.reqs) >= 1 =>
                lastCall.reqs[1] = SearchRequest(lastCall.arg, lastCall.country)
          /\ Len(lastCall.reqs) = 2 =>
                /\ SearchResolves(lastCall.ups[1])
                /\ lastCall.reqs[2].endpoint = "place/details/json"
                /\ lastCall.reqs[2].params[1] =
                      <<"place_id", lastCall.ups[1].body[1].results[1][1].place_id.v>>
          /\ \A i \in DOMAIN lastCall.ups :
                lastCall.ups[i].kind = "raise" => Len(lastCall.reqs) = i
          /\ lastCall.changed =>
                /\ Len(lastCall.reqs) = 2
                /\ \A i \in 1..2 : lastCall.ups[i].kind = "json"
\* a text_to_location call that made both requests and then wrote the cache
C31_Witness ==
    /\ IsTextToLocation /\ Len(lastCall.reqs) = 2 /\ lastCall.changed
    /\ lastCall.reqs[2].params[1] = <<"place_id", "P2">>
    /\ lastCall.ret # None

\* the details request came back with a result
DetailsResolves(up) == up.kind = "json" /\ up.body[1].result # None

\* C32: failures are never cached: a freeform or text_to_location call that
\* ends in NotFound or in a gateway failure leaves the cache as it was, and
\* the cache changes only in a call whose requests all resolved.
C32_FailuresNotCached ==
    (IsFreeform \/ IsTextToLocation) =>
        /\ lastCall.shown \in {"NotFound", "GatewayError"} => ~lastCall.changed
        /\ (IsFreeform /\ lastCall.changed) =>
              Len(lastCall.ups) = 1 /\ GeocodeResolves(lastCall.ups[1])
        /\ (IsTextToLocation /\ lastCall.changed) =>
              /\ Len(lastCall.ups) = 2
              /\ SearchResolves(lastCall.ups[1])
              /\ DetailsResolves(lastCall.ups[2])

\* ------------------------------------------- claims on the shared Places object
\* the location the Places API resolves for a query
LocationOf(query) ==
    PlacesOutput(DetailsOf(UpstreamDetails(
        UpstreamSearch(SearchRequest(query, Some(<<"u", "s">>)).params).results[1][1].place_id)))

\* C33: when two text_to_location calls for different queries run at the
\* same time on one Places object with one cache, every cache entry holds
\* the location resolved for the query of its key, and each call returns
\* the location resolved for its own query.
C33_CallsIndependent ==
    /\ \A i \in Threads :
          PlacesKey(QueryOf(i), Some(<<"u", "s">>)) \in DOMAIN store
              => store[PlacesKey(QueryOf(i), Some(<<"u", "s">>))] = LocationOf(QueryOf(i))
    /\ \A i \in Threads :
          places.th[i].pc = "returned"
              => places.th[i].ret = Some(LocationOf(places.th[i].query))

\* ------------------------------------------------------- claims on the keys
\* address and hint of the freeform call c, the hint in upper case
QueryPair(c) == << c.arg, upper(OrEmpty(c.country)) >>

\* C34: the Geocoder cache key is injective in the query: two freeform calls
\* whose (address, country hint) pairs differ, the hint case-normalized,
\* never derive the same key, so a value cached for one is never returned
\* for the other.
C34_KeyInjective ==
    [][(lastCall.fn = "freeform" /\ lastCall'.fn = "freeform"
            /\ QueryPair(lastCall) # QueryPair(lastCall'))
          => lastCall'.key # lastCall.key]_vars

\* the key k starts with the text ns
StartsWith(k, ns) == Len(k) >= Len(ns) /\ SubSeq(k, 1, Len(ns)) = ns

\* C35: with one cache shared by a Geocoder and a Places object, every key
\* the Geocoder reads or writes starts with "geocode::" and every key
\* Places reads or writes starts with "places::"; what a call returns as a
\* hit is the value held under its own key, never an entry of the other
\* service.
C35_NamespacesDisjoint ==
    /\ IsFreeform =>
          /\ StartsWith(lastCall.key, "geocode::")
          /\ ~StartsWith(lastCall.key, "places::")
          /\ lastCall.hit => lastCall.ret = lastCall.held
    /\ (IsTextToLocation /\ lastCall.key # "") =>
          /\ StartsWith(lastCall.key, "places::")
          /\ ~StartsWith(lastCall.key, "geocode::")
          /\ lastCall.hit => lastCall.ret = lastCall.held
    /\ (IsTextToLocation /\ lastCall.key = "") => ~lastCall.hit /\ ~lastCall.changed
\* a freeform hit on a cache that also holds an entry of Places
C35_Witness ==
    /\ cache = "InMemoryCache" /\ IsFreeform /\ lastCall.hit
    /\ lastCall.ret = Some(Cached)
    /\ \E k \in DOMAIN store : StartsWith(k, "places::")

\* ------------------------------------------------- claims on the two backends
\* C36: InMemoryCache and SQLiteCache are observationally equivalent: after
\* any sequence of set and get with string keys and JSON-object values
\* applied to both, a get returns equal results on the two: absent for a
\* key never set, otherwise the last value set.
C36_BackendsAgree ==
    lastOp.op = "get" =>
        /\ (got[1] = None) = (got[2] = None)
        /\ (got[1] = None) = (lastOp.key \notin DOMAIN written)
        /\ got[1] # None =>
              /\ DictEq(got[1][1], got[2][1])
              /\ DictEq(got[1][1], written[lastOp.key])
              /\ DictEq(got[2][1], written[lastOp.key])
\* a get of a key set twice, the second value a two-member object with a list
C36_Witness ==
    /\ lastOp.op = "get" /\ overwrote
    /\ got[1] # None /\ got[2] # None
    /\ Len(got[2][1]) = 2
    /\ \E i \in DOMAIN got[2][1] : got[2][1][i].vk = "list"
    /\ \E k \in CacheKeys : k # lastOp.key /\ k \notin DOMAIN written

\* ------------------------------------------------- claims on the sleep of wait( )
\* C37: under a non-decreasing clock, a wait( ) with qps > 0 sleeps exactly
\* max( 0, min_interval - elapsed ), elapsed being the time since the last
\* recorded call: never longer than min_interval, and not at all when
\* min_interval has already elapsed, the first call of a new limiter
\* included.
C37_SleepsDeficit ==
    [][(flip' # flip /\ QpsPositive) =>
          LET elapsed == now - last
              slept == IF limSleep' = None THEN 0 ELSE limSleep'[1]
          IN  /\ elapsed >= 0
              /\ slept = IF MinInterval - elapsed > 0 THEN MinInterval - elapsed ELSE 0
              /\ slept <= MinInterval
              /\ elapsed >= MinInterval => limSleep' = None
              /\ limSleep' # None => limSleep'[1] > 0]_vars
\* a wait( ) that followed another one half an interval later and slept the
\* other half
C37_Witness ==
    /\ QpsPositive /\ MinInterval = 2 /\ waited
    /\ limSleep = Some(1)
    /\ last >= 3

\* ------------------------------------------------- claims on the columns read
\* C38: for every row, Excel.enrich reads city, state and country from the
\* columns named by its city, state and cntry arguments: the names used are
\* the same for the first row and for every later one.
C38_ColumnsKept ==
    xl.fn = "enrich" =>
        /\ xl.city = ColumnArg("City")
        /\ xl.state.kind # "value"
        /\ xl.cntry = ColumnArg("Country")
        /\ xl.exc # "AttributeError" \/ xl.row = None

====
